---- MODULE Spec2Model ----
(***************************************************************************)
(* Model of src/type_checker.py: the decorator typecheck(func) and the     *)
(* closure check_type it returns.                                          *)
(*                                                                         *)
(* Every error the module raises on purpose is a Python TypeError; the     *)
(* five message forms are told apart by the field "kind", named after the  *)
(* error taxonomy of the specification:                                    *)
(*   "Not a function: ..."                          NotCallableError        *)
(*   "Type hint required for function ..."          NoAnnotationsError      *)
(*   "... got an unexpected keyword argument ..."   UnknownKeywordArgumentError *)
(*   "No type information for positional ..."       PositionalAnnotationMissingError *)
(*   "... requires type ..., but got ..."           TypeMismatchError       *)
(* The documentation string typecheck writes (lines 91-104) is read by no  *)
(* later step of the validator and is left out of the state.               *)
(***************************************************************************)
EXTENDS Integers, Sequences, FiniteSets, TLC

VARIABLES
    py,                                 \* the interpreter the module runs on
    func,                               \* the object handed to typecheck
    wrapState,                          \* "defined" | "wrapped" | "raised"
    wrapError,                          \* what typecheck raised, or NoError
    type_annotations,                   \* closure variable, line 89
    function_positional_argument_list,  \* closure variable, line 95
    pc,                                 \* "idle" | "returned": a call's frame
    args,                               \* *args of the call
    kwargs,                             \* **kwargs of the call, in the order supplied
    checked,                            \* the arguments the two loops looked at, in order
    invocations,                        \* the calls check_type made to func
    origOutcome,                        \* what func did when it was invoked
    outcome                             \* what check_type did: returned or raised

vars == <<py, func, wrapState, wrapError, type_annotations,
          function_positional_argument_list, pc, args, kwargs, checked,
          invocations, origOutcome, outcome>>

(***************************************************************************)
(* Bounds of the model.                                                    *)
(***************************************************************************)
MaxArgs == 3    \* arguments of one call, positional and keyword together

(***************************************************************************)
(* Python objects.                                                         *)
(***************************************************************************)
\* CPython 3.9/3.10 and CPython 3.11 or later: the two answers
\* isinstance(x, type) has for typing.Any and for list[int].
Interpreters == {"3.10", "3.11"}

\* The classes of the argument values; bool is a subclass of int.
Classes == {"int", "bool", "str"}
Values == { [cls |-> "int", repr |-> "1"],
            [cls |-> "bool", repr |-> "True"],
            [cls |-> "str", repr |-> "s"] }

\* What a parameter can be annotated with: a class, typing.Any, the union
\* int | str, the string annotation "int", the parameterised generic list[int].
ANY == "typing.Any"
UnionAnnotation == "int | str"
StringAnnotation == "'int'"
GenericAnnotation == "list[int]"
Annotations == {"int", ANY, UnionAnnotation, StringAnnotation, GenericAnnotation}

ParamNames == <<"a", "b">>
KeywordNames == {"a", "b", "return"}

Range(s) == { s[i] : i \in 1..Len(s) }

EmptyMap == <<>>

\* func.__annotations__ of a function with the parameters params: any subset
\* of the parameters annotated, and "return" when the return type is.
AnnotationMaps(params) ==
    { pa @@ ra :
        pa \in UNION { [S -> Annotations] : S \in SUBSET Range(params) },
        ra \in { EmptyMap, "return" :> "int" } }

\* The objects typecheck can be handed. "function" is a def or a lambda (also
\* the wrapper functools.singledispatch returns, src/test.py:11-13).
FunctionObjects ==
    { [kind |-> "function", name |-> "f", params |-> SubSeq(ParamNames, 1, n),
       annotations |-> m] :
        n \in 0..Len(ParamNames), m \in UNION { AnnotationMaps(SubSeq(ParamNames, 1, k)) : k \in 0..Len(ParamNames) } }

OtherKinds == {"builtin", "class", "callable_instance", "bound_method", "partial",
               "int_value", "str_value", "none_value"}

Candidates ==
    { f \in FunctionObjects : DOMAIN f.annotations \subseteq Range(f.params) \cup {"return"} }
    \cup { [kind |-> k, name |-> k, params |-> <<>>, annotations |-> EmptyMap] : k \in OtherKinds }

\* Mutant of isfunction: callable(func), every invocable object is accepted
isfunction_Callable(f) ==
    f.kind \in {"function", "builtin", "class", "callable_instance", "bound_method", "partial"}

\* inspect.isfunction(func), line 62
isfunction(f) == f.kind = "function"

(***************************************************************************)
(* str(type) and get_clear_type_name, on strings as sequences of characters*)
(***************************************************************************)
NameChars(t) ==
    CASE t = "int" -> <<"i", "n", "t">>
      [] t = "bool" -> <<"b", "o", "o", "l">>
      [] t = "str" -> <<"s", "t", "r">>
      [] t = ANY -> <<"t", "y", "p", "i", "n", "g", ".", "A", "n", "y">>
      [] t = GenericAnnotation -> <<"l", "i", "s", "t", "[", "i", "n", "t", "]">>
      [] t = UnionAnnotation -> <<"i", "n", "t", " ", "|", " ", "s", "t", "r">>
      [] OTHER -> <<"i", "n", "t">>

\* str(t): "<class 'int'>" for a class, the bare form for typing.Any, list[int], int | str
str(t) ==
    IF t \in Classes
    THEN <<"<", "c", "l", "a", "s", "s", " ", "'">> \o NameChars(t) \o <<"'", ">">>
    ELSE NameChars(t)

RECURSIVE lstrip(_, _)
lstrip(s, chars) ==
    IF s # <<>> /\ Head(s) \in chars THEN lstrip(Tail(s), chars) ELSE s

RECURSIVE rstrip(_, _)
rstrip(s, chars) ==
    IF s # <<>> /\ s[Len(s)] \in chars THEN rstrip(SubSeq(s, 1, Len(s) - 1), chars) ELSE s

\* str.strip(chars): chars is a set of characters, removed from both ends
strip(s, chars) == rstrip(lstrip(s, chars), chars)

\* lines 72-75
get_clear_type_name(raw_type_name) ==
    strip(strip(strip(raw_type_name, {"<", "c", "l", "a", "s", " "}), {"'"}), {"'", ">"})

(***************************************************************************)
(* Errors and outcomes.                                                    *)
(***************************************************************************)
Error(exc, kind, fname, name, index, required, actual) ==
    [exc |-> exc, kind |-> kind, func |-> fname, name |-> name, index |-> index,
     required |-> required, actual |-> actual]

NoError == Error("", "", "", "", -1, <<>>, <<>>)

NoOutcome == [kind |-> "none", value |-> "", error |-> NoError]
Return(v) == [kind |-> "return", value |-> v, error |-> NoError]
Raise(e) == [kind |-> "raise", value |-> "", error |-> e]

\* What the original callable does once it is invoked: it returns a value, or
\* raises (its body, or Python's binding of the arguments to its parameters).
OrigOutcomes == { Return("r"), Raise(Error("OrigError", "FromOriginal", "", "", -1, <<>>, <<>>)) }

KeywordArg(name) == [by |-> "keyword", name |-> name, index |-> -1]
PositionalArg(index) == [by |-> "position", name |-> "", index |-> index]

(***************************************************************************)
(* check_type, lines 107-166                                               *)
(***************************************************************************)
\* isinstance(required_type, type), lines 130 and 156. typing.Any is a class
\* from CPython 3.11 on; list[int] passes for a class up to CPython 3.10.
IsInstanceOfType(required_type) ==
    \/ required_type \in Classes
    \/ required_type = ANY /\ py = "3.11"
    \/ required_type = GenericAnnotation /\ py = "3.10"

\* type(param_value), lines 127 and 155
type(param_value) == param_value.cls

\* Mutant of TypesDiffer: not issubclass(actual_type, required_type), the
\* isinstance-style test that lets a bool pass for an int
TypesDiffer_Subclass(actual_type, required_type) ==
    ~(actual_type = required_type \/ (actual_type = "bool" /\ required_type = "int"))

\* actual_type != required_type, lines 132 and 158: identity of the two type
\* objects, no subclass test
TypesDiffer(actual_type, required_type) == actual_type # required_type

\* Mutant of CheckKeywordArgument: a keyword that has no annotation is passed on
\* unchecked instead of raising
CheckKeywordArgument_SkipsUnknown(real_param_name, param_value) ==
    IF real_param_name \notin DOMAIN type_annotations
    THEN NoError
    ELSE LET required_type == type_annotations[real_param_name]
             actual_type == type(param_value)
         IN  IF ~IsInstanceOfType(required_type) THEN NoError
             ELSE IF TypesDiffer(actual_type, required_type)
             THEN Error("TypeError", "TypeMismatchError", "", real_param_name, -1,
                        get_clear_type_name(str(required_type)),
                        get_clear_type_name(str(actual_type)))
             ELSE NoError

\* One turn of the keyword loop, lines 117-137: the error raised, or NoError
CheckKeywordArgument(real_param_name, param_value) ==
    IF real_param_name \notin DOMAIN type_annotations
    THEN Error("TypeError", "UnknownKeywordArgumentError", func.name, real_param_name,
               -1, <<>>, <<>>)
    ELSE LET required_type == type_annotations[real_param_name]
             actual_type == type(param_value)
         IN  IF ~IsInstanceOfType(required_type) THEN NoError
             ELSE IF TypesDiffer(actual_type, required_type)
             THEN Error("TypeError", "TypeMismatchError", "", real_param_name, -1,
                        get_clear_type_name(str(required_type)),
                        get_clear_type_name(str(actual_type)))
             ELSE NoError

\* lines 140-141: list indexing, IndexError past the end
get_positioanal_argument_name(index) ==
    IF index < Len(function_positional_argument_list)
    THEN function_positional_argument_list[index + 1]
    ELSE "<IndexError>"

\* Mutant of CheckPositionalArgument: a parameter that has no annotation is
\* passed on unchecked instead of raising
CheckPositionalArgument_SkipsUnannotated(index, param_value) ==
    LET param_name == get_positioanal_argument_name(index) IN
    IF param_name = "<IndexError>"
    THEN Error("IndexError", "IndexError", "", "", -1, <<>>, <<>>)
    ELSE IF param_name \notin DOMAIN type_annotations
    THEN NoError
    ELSE LET required_type == type_annotations[param_name]
             actual_type == type(param_value)
         IN  IF ~IsInstanceOfType(required_type) THEN NoError
             ELSE IF TypesDiffer(actual_type, required_type)
             THEN Error("TypeError", "TypeMismatchError", "", param_name, index,
                        get_clear_type_name(str(required_type)),
                        get_clear_type_name(str(actual_type)))
             ELSE NoError

\* One turn of the positional loop, lines 144-163
CheckPositionalArgument(index, param_value) ==
    LET param_name == get_positioanal_argument_name(index) IN
    IF param_name = "<IndexError>"
    THEN Error("IndexError", "IndexError", "", "", -1, <<>>, <<>>)
    ELSE IF param_name \notin DOMAIN type_annotations
    THEN Error("TypeError", "PositionalAnnotationMissingError", "", param_name, index,
               <<>>, <<>>)
    ELSE LET required_type == type_annotations[param_name]
             actual_type == type(param_value)
         IN  IF ~IsInstanceOfType(required_type) THEN NoError
             ELSE IF TypesDiffer(actual_type, required_type)
             THEN Error("TypeError", "TypeMismatchError", "", param_name, index,
                        get_clear_type_name(str(required_type)),
                        get_clear_type_name(str(actual_type)))
             ELSE NoError

\* The keyword loop, lines 117-137, from the i-th keyword on; seen holds the
\* arguments looked at so far. The first error ends the loop.
RECURSIVE CheckKeywordArguments(_, _, _)
CheckKeywordArguments(function_keyword_arguments, i, seen) ==
    IF i > Len(function_keyword_arguments)
    THEN [error |-> NoError, checked |-> seen]
    ELSE LET item == function_keyword_arguments[i]
             e == CheckKeywordArgument(item.name, item.value)
         IN  IF e # NoError
             THEN [error |-> e, checked |-> Append(seen, KeywordArg(item.name))]
             ELSE CheckKeywordArguments(function_keyword_arguments, i + 1,
                                        Append(seen, KeywordArg(item.name)))

\* The positional loop, lines 144-163, from the 0-based index on
RECURSIVE CheckPositionalArguments(_, _, _)
CheckPositionalArguments(function_positional_arguments, index, seen) ==
    IF index >= Len(function_positional_arguments)
    THEN [error |-> NoError, checked |-> seen]
    ELSE LET e == CheckPositionalArgument(index, function_positional_arguments[index + 1])
         IN  IF e # NoError
             THEN [error |-> e, checked |-> Append(seen, PositionalArg(index))]
             ELSE CheckPositionalArguments(function_positional_arguments, index + 1,
                                           Append(seen, PositionalArg(index)))

\* Mutant of Validate: no guard on an empty annotation map
Validate_NoGuard(a, kw) ==
    LET k == CheckKeywordArguments(kw, 1, <<>>) IN
    IF k.error # NoError THEN k
    ELSE CheckPositionalArguments(a, 0, k.checked)

\* Mutant of Validate: the positional loop runs before the keyword loop
Validate_PositionalFirst(a, kw) ==
    IF DOMAIN type_annotations = {}
    THEN [error |-> Error("TypeError", "NoAnnotationsError", func.name, "", -1, <<>>, <<>>),
          checked |-> <<>>]
    ELSE LET q == CheckPositionalArguments(a, 0, <<>>) IN
         IF q.error # NoError THEN q
         ELSE CheckKeywordArguments(kw, 1, q.checked)

\* lines 109-163: the guard, the keyword loop, then the positional loop
Validate(a, kw) ==
    IF DOMAIN type_annotations = {}
    THEN [error |-> Error("TypeError", "NoAnnotationsError", func.name, "", -1, <<>>, <<>>),
          checked |-> <<>>]
    ELSE LET k == CheckKeywordArguments(kw, 1, <<>>) IN
         IF k.error # NoError THEN k
         ELSE CheckPositionalArguments(a, 0, k.checked)

\* Mutant of Delegate: the keyword arguments are not passed on
Delegate_DropsKeywords(a, kw) == [args |-> a, kwargs |-> <<>>]

\* line 166: func is called with function_positional_arguments and
\* function_keyword_arguments as they were received
Delegate(a, kw) == [args |-> a, kwargs |-> kw]

\* line 166: return what func returned (an exception of func propagates)
Result(o) == o

(***************************************************************************)
(* The calls the model tries.                                              *)
(***************************************************************************)
\* The positional argument lists of length n
ArgLists(n) == [1..n -> Values]

\* The keyword arguments of a call are a dict: n distinct names, in the order
\* supplied, each with a value
KeywordNameLists(n) ==
    { s \in [1..n -> KeywordNames] : \A i, j \in 1..n : i # j => s[i] # s[j] }

KeywordLists(n) ==
    { [i \in 1..n |-> [name |-> ns[i], value |-> vs[i]]] :
        ns \in KeywordNameLists(n), vs \in [1..n -> Values] }

\* The calls of at most MaxArgs arguments: <<args, kwargs>>
Calls ==
    UNION { { <<a, kw>> : a \in ArgLists(n[1]), kw \in KeywordLists(n[2]) } :
            n \in { m \in (0..MaxArgs) \X (0..MaxArgs) : m[1] + m[2] <= MaxArgs } }

(***************************************************************************)
(* Actions.                                                                *)
(***************************************************************************)
Init ==
    /\ py \in Interpreters
    /\ func \in Candidates
    /\ wrapState = "defined"
    /\ wrapError = NoError
    /\ type_annotations = EmptyMap
    /\ function_positional_argument_list = <<>>
    /\ pc = "idle"
    /\ args = <<>>
    /\ kwargs = <<>>
    /\ checked = <<>>
    /\ invocations = <<>>
    /\ origOutcome = NoOutcome
    /\ outcome = NoOutcome

\* typecheck(func), lines 51-167
typecheck ==
    /\ wrapState = "defined"
    /\ IF ~isfunction(func)
       THEN /\ wrapState' = "raised"
            /\ wrapError' = Error("TypeError", "NotCallableError", func.name, "", -1, <<>>, <<>>)
            /\ UNCHANGED <<type_annotations, function_positional_argument_list>>
       ELSE /\ wrapState' = "wrapped"
            /\ wrapError' = NoError
            /\ type_annotations' = func.annotations
            /\ function_positional_argument_list' = func.params
    /\ UNCHANGED <<py, func, pc, args, kwargs, checked, invocations, origOutcome, outcome>>

\* check_type, lines 108-166: one call of the wrapped callable
check_type(a, kw) ==
    /\ wrapState = "wrapped"
    /\ pc = "idle"
    /\ pc' = "returned"
    /\ args' = a
    /\ kwargs' = kw
    /\ LET v == Validate(a, kw) IN
         /\ checked' = v.checked
         /\ IF v.error # NoError
            THEN /\ invocations' = <<>>
                 /\ origOutcome' = NoOutcome
                 /\ outcome' = Raise(v.error)
            ELSE \E o \in OrigOutcomes :
                 /\ invocations' = <<Delegate(a, kw)>>
                 /\ origOutcome' = o
                 /\ outcome' = Result(o)
    /\ UNCHANGED <<py, func, wrapState, wrapError, type_annotations,
                   function_positional_argument_list>>

\* The caller goes on after the call: the frame of check_type is gone, the
\* wrapped callable can be called again
caller_resumes ==
    /\ pc = "returned"
    /\ pc' = "idle"
    /\ args' = <<>>
    /\ kwargs' = <<>>
    /\ checked' = <<>>
    /\ invocations' = <<>>
    /\ origOutcome' = NoOutcome
    /\ outcome' = NoOutcome
    /\ UNCHANGED <<py, func, wrapState, wrapError, type_annotations,
                   function_positional_argument_list>>

\* A caller calls the wrapped callable with some arguments
call ==
    /\ wrapState = "wrapped"
    /\ pc = "idle"
    /\ \E c \in Calls : check_type(c[1], c[2])

Next ==
    \/ typecheck
    \/ call
    \/ caller_resumes

Spec == Init /\ [][Next]_vars

(***************************************************************************)
(* Vocabulary of the properties. These definitions read the object that    *)
(* was wrapped (func) and the call (args, kwargs), not the closure.        *)
(***************************************************************************)
Called == pc = "returned"

\* The supplied arguments in the order the specification checks them:
\* keywords in the order supplied, then positionals by index
Order ==
    [i \in 1..Len(kwargs) |-> KeywordArg(kwargs[i].name)]
    \o [i \in 1..Len(args) |-> PositionalArg(i - 1)]

Supplied == Range(Order)

ValueOf(x) ==
    IF x.by = "keyword"
    THEN kwargs[CHOOSE i \in 1..Len(kwargs) : kwargs[i].name = x.name].value
    ELSE args[x.index + 1]

\* The declared parameter an argument is for: the keyword's name, or the
\* parameter at the positional index in declaration order
NoParam == "<no parameter>"
ParamOf(x) ==
    IF x.by = "keyword"
    THEN IF x.name \in Range(func.params) THEN x.name ELSE NoParam
    ELSE IF x.index < Len(func.params) THEN func.params[x.index + 1] ELSE NoParam

UNSET == "<unset>"
DeclaredType(x) ==
    IF ParamOf(x) \in DOMAIN func.annotations THEN func.annotations[ParamOf(x)] ELSE UNSET

UnannotatedParams == Range(func.params) \ DOMAIN func.annotations
AnnotatedParams == Range(func.params) \cap DOMAIN func.annotations

\* The call ended with an error of the validator (not one of the original)
RaisedByValidator == outcome.kind = "raise" /\ outcome.error.exc \in {"TypeError", "IndexError"}

\* The validator looked at x
Reached(x) == x \in Range(checked)
\* ... and x is the argument whose check raised
FailedCheck(x) == RaisedByValidator /\ checked # <<>> /\ checked[Len(checked)] = x
\* ... or did not raise
PassedCheck(x) == Reached(x) /\ ~FailedCheck(x)

InvokedOnceUnmodified ==
    /\ Len(invocations) = 1
    /\ invocations[1].args = args
    /\ invocations[1].kwargs = kwargs
    /\ origOutcome \in OrigOutcomes
    /\ outcome = origOutcome

NotInvoked == invocations = <<>> /\ origOutcome = NoOutcome

\* The TypeMismatchError that identifies x: keyword name, or position and
\* resolved name; the declared type and the actual type by their names
MismatchErrorFor(x) ==
    Error("TypeError", "TypeMismatchError", "", ParamOf(x), x.index,
          NameChars(DeclaredType(x)), NameChars(ValueOf(x).cls))

IsConcreteMismatch(x) ==
    /\ DeclaredType(x) \in Classes
    /\ ValueOf(x).cls # DeclaredType(x)

(***************************************************************************)
(* C1: delegation when every check passes                                  *)
(***************************************************************************)
\* C1 as claimed: in every call in which every supplied keyword and positional
\* argument passes its check, the original callable is invoked exactly once with
\* the same positional and keyword arguments and its result is returned unchanged.
C1_AsClaimed ==
    (Called /\ \A x \in Supplied : PassedCheck(x)) => InvokedOnceUnmodified

\* C1 amended: the same, for a callable that has at least one annotation (of a
\* parameter or of the return type); every supplied argument was looked at and
\* nothing else was.
C1_Delegation ==
    (Called /\ DOMAIN func.annotations # {} /\ \A x \in Supplied : PassedCheck(x))
        => InvokedOnceUnmodified /\ checked = Order

C1_Witness ==
    /\ Called
    /\ func.params = <<"a", "b">>
    /\ "b" \in DOMAIN func.annotations
    /\ Len(args) = 1 /\ kwargs = <<>>
    /\ DeclaredType(PositionalArg(0)) = "int"
    /\ PassedCheck(PositionalArg(0))
    /\ InvokedOnceUnmodified
    /\ outcome = Return("r")

(***************************************************************************)
(* C2: exact type identity                                                 *)
(***************************************************************************)
\* C2 as claimed: for every supplied argument whose parameter is annotated with a
\* class T and whose value's type is not exactly T (a bool for an int included),
\* the call fails with the TypeMismatchError that identifies that argument, T and
\* the actual type, and the original callable is not invoked.
C2_AsClaimed ==
    Called => \A x \in Supplied :
        IsConcreteMismatch(x) => outcome = Raise(MismatchErrorFor(x)) /\ NotInvoked

\* C2 amended: for every such argument the call fails and the original callable is
\* not invoked; the error is the TypeMismatchError identifying that argument
\* whenever the validator reaches it (the callable has an annotation and every
\* argument before it, keywords first, passed).
C2_ExactType ==
    Called => \A x \in Supplied :
        IsConcreteMismatch(x) =>
            /\ RaisedByValidator
            /\ NotInvoked
            /\ Reached(x) => outcome = Raise(MismatchErrorFor(x))

C2_Witness ==
    /\ Called
    /\ args = <<[cls |-> "bool", repr |-> "True"]>>
    /\ kwargs = <<>>
    /\ DeclaredType(PositionalArg(0)) = "int"
    /\ outcome = Raise(Error("TypeError", "TypeMismatchError", "", "a", 0,
                             <<"i", "n", "t">>, <<"b", "o", "o", "l">>))
    /\ NotInvoked

(***************************************************************************)
(* C3: the ANY opt-out                                                     *)
(***************************************************************************)
\* C3: no call fails with a TypeMismatchError because of the value supplied for a
\* parameter declared typing.Any, positionally or by keyword.
C3_AnyNeverMismatches ==
    Called => \A x \in Supplied :
        DeclaredType(x) = ANY => ~(FailedCheck(x) /\ outcome.error.kind = "TypeMismatchError")

(***************************************************************************)
(* C4: unknown keyword                                                     *)
(***************************************************************************)
UnknownKeywordErrorFor(x) ==
    Error("TypeError", "UnknownKeywordArgumentError", func.name, x.name, -1, <<>>, <<>>)

NoAnnotationsErrorRaised ==
    /\ outcome = Raise(Error("TypeError", "NoAnnotationsError", func.name, "", -1, <<>>, <<>>))
    /\ checked = <<>>
    /\ NotInvoked

\* C5 as claimed: wrapping a callable with zero annotated parameters succeeds, and
\* every call to it fails with NoAnnotationsError before any argument is inspected
\* and without invoking the original callable, also with zero arguments.
C5_AsClaimed ==
    (func.kind = "function" /\ AnnotatedParams = {}) =>
        /\ wrapState # "raised"
        /\ Called => NoAnnotationsErrorRaised

\* C5 amended: the same for a callable with no annotation at all, neither of a
\* parameter nor of the return type.
C5_NoAnnotationGuard ==
    (func.kind = "function" /\ DOMAIN func.annotations = {}) =>
        /\ wrapState # "raised"
        /\ Called => NoAnnotationsErrorRaised

C5_Witness ==
    /\ Called
    /\ func.params = <<"a", "b">>
    /\ DOMAIN func.annotations = {}
    /\ args = <<>> /\ kwargs = <<>>
    /\ NoAnnotationsErrorRaised

(***************************************************************************)
(* C6: positional index without a declared parameter                       *)
(***************************************************************************)
\* C6: for every supplied positional argument whose index has no declared
\* parameter, the call fails with the PositionalAnnotationMissingError naming that
\* index. Stated for the arguments the validator reaches, where that error would
\* have to be the one raised.
C6_ExtraPositional ==
    Called => \A x \in Supplied :
        (x.by = "position" /\ x.index >= Len(func.params) /\ Reached(x))
            => /\ outcome.kind = "raise"
               /\ outcome.error.kind = "PositionalAnnotationMissingError"
               /\ outcome.error.index = x.index

(***************************************************************************)
(* C7: unannotated parameter of a partly annotated callable                *)
(***************************************************************************)
IdentifiesByName(p) ==
    /\ RaisedByValidator
    /\ outcome.error.kind \in {"UnknownKeywordArgumentError", "PositionalAnnotationMissingError"}
    /\ outcome.error.name = p

SuppliesUnannotated(x) == ParamOf(x) \in UnannotatedParams

NotFailedForUnannotated ==
    (\A x \in Supplied : ~SuppliesUnannotated(x))
        => ~(RaisedByValidator /\ outcome.error.name \in UnannotatedParams)

\* C7 as claimed: for a callable with an annotation and an unannotated parameter,
\* every call that supplies a value for an unannotated parameter fails with an
\* error identifying that parameter by name and does not invoke the original
\* callable; a call supplying values only for annotated parameters is not failed
\* because of the unannotated one.
C7_AsClaimed ==
    (Called /\ DOMAIN func.annotations # {} /\ UnannotatedParams # {}) =>
        /\ \A x \in Supplied : SuppliesUnannotated(x)
                => IdentifiesByName(ParamOf(x)) /\ NotInvoked
        /\ NotFailedForUnannotated

\* C7 amended: every such call fails and does not invoke the original callable;
\* the error identifies the unannotated parameter by name whenever the validator
\* reaches its argument (every argument before it, keywords first, passed).
C7_Unannotated ==
    (Called /\ DOMAIN func.annotations # {} /\ UnannotatedParams # {}) =>
        /\ \A x \in Supplied : SuppliesUnannotated(x)
                => /\ RaisedByValidator
                   /\ NotInvoked
                   /\ Reached(x) => IdentifiesByName(ParamOf(x))
        /\ NotFailedForUnannotated

C7_Witness ==
    /\ Called
    /\ func.params = <<"a", "b">>
    /\ DOMAIN func.annotations = {"a"}
    /\ func.annotations["a"] = "int"
    /\ args = <<[cls |-> "int", repr |-> "1"], [cls |-> "int", repr |-> "1"]>>
    /\ kwargs = <<>>
    /\ outcome = Raise(Error("TypeError", "PositionalAnnotationMissingError", "", "b", 1,
                             <<>>, <<>>))
    /\ NotInvoked

(***************************************************************************)
(* C8: what typecheck itself raises                                        *)
(***************************************************************************)
\* callable(x) of Python: functions, builtins, classes, instances with __call__,
\* bound methods and functools.partial objects are invocable
Invocable(f) ==
    f.kind \in {"function", "builtin", "class", "callable_instance", "bound_method", "partial"}

CallTimeErrors == {"NoAnnotationsError", "UnknownKeywordArgumentError",
                   "PositionalAnnotationMissingError", "TypeMismatchError"}

OnlyNotCallableAtWrapTime ==
    /\ wrapState = "raised" => wrapError.kind = "NotCallableError" /\ wrapError.func = func.name
    /\ wrapState # "raised" => wrapError = NoError
    /\ wrapError.kind \notin CallTimeErrors
    /\ outcome.error.kind \in CallTimeErrors => Called /\ wrapState = "wrapped"

\* C8 as claimed: typecheck(x) raises NotCallableError when x is not invocable and
\* returns a wrapped callable for every invocable x; the call-time errors are
\* raised only from a call of the wrapped callable.
C8_AsClaimed ==
    wrapState # "defined" =>
        /\ wrapState = "raised" <=> ~Invocable(func)
        /\ OnlyNotCallableAtWrapTime

\* C8 amended: typecheck(x) raises NotCallableError when x is not a plain Python
\* function (a def or a lambda), which includes the invocable builtins, classes,
\* bound methods, partial objects and instances with __call__; for every plain
\* function it returns a wrapped callable, whatever its annotations; the
\* call-time errors are raised only from a call of the wrapped callable.
C8_WrapTime ==
    wrapState # "defined" =>
        /\ wrapState = "raised" <=> func.kind # "function"
        /\ OnlyNotCallableAtWrapTime

C8_Witness ==
    /\ wrapState = "raised"
    /\ func.kind = "builtin"
    /\ wrapError = Error("TypeError", "NotCallableError", "builtin", "", -1, <<>>, <<>>)

(***************************************************************************)
(* C9: order of the checks                                                 *)
(***************************************************************************)
\* What the check of x alone does: the error it raises, or NoError
ErrorOf(x) ==
    IF x.by = "keyword"
    THEN CheckKeywordArgument(x.name, ValueOf(x))
    ELSE CheckPositionalArgument(x.index, ValueOf(x))

FailingPositions == { i \in 1..Len(Order) : ErrorOf(Order[i]) # NoError }

FirstFailing == CHOOSE i \in FailingPositions : \A j \in FailingPositions : i <= j

C10_NonClassNeverChecked ==
    Called =>
        /\ \A x \in Supplied :
             (DeclaredType(x) \in {UnionAnnotation, StringAnnotation, GenericAnnotation}
              /\ Reached(x)) => PassedCheck(x)
        /\ ( /\ func.params = <<"a", "b">>
             /\ DOMAIN func.annotations \cap {"a", "b"} = {"a", "b"}
             /\ func.annotations["a"] = UnionAnnotation
             /\ func.annotations["b"] = UnionAnnotation
             /\ Len(args) = 2 /\ kwargs = <<>> ) => InvokedOnceUnmodified

====
